---- MODULE Spec2Model ----
(***************************************************************************)
(* th-commit: the receive loop of run_commit (src/main.rs) and the         *)
(* decoding of the commit actor's result payload.                          *)
(*                                                                         *)
(* Strings are sequences of one-character strings, so that split("|"),     *)
(* split_once(":"), the key match and the integer parse are computed       *)
(* character by character as the Rust code computes them.                  *)
(***************************************************************************)
EXTENDS Integers, Sequences, FiniteSets, TLC

VARIABLES pc, operation_success, ret, received, decoded, output

vars == <<pc, operation_success, ret, received, decoded, output>>

-----------------------------------------------------------------------------
(* Bounds of the model *)

\* frames read from the connection in one run
MaxFrames == 3
\* '|'-separated fields of an enumerated status_msg
MaxFields == 2

-----------------------------------------------------------------------------
(* Option<&str> *)

None == [some |-> FALSE, v |-> <<>>]
Some(s) == [some |-> TRUE, v |-> s]

-----------------------------------------------------------------------------
(* The string literals of the decoder *)

PIPE == "|"
COLON == ":"

STATUS == <<"S", "T", "A", "T", "U", "S">>
MESSAGE == <<"M", "E", "S", "S", "A", "G", "E">>
HASH == <<"H", "A", "S", "H">>
COMMIT_MSG == <<"C", "O", "M", "M", "I", "T", "_", "M", "S", "G">>
FILES == <<"F", "I", "L", "E", "S">>
INS == <<"I", "N", "S">>
DELS == <<"D", "E", "L", "S">>

STR_TRUE == <<"t", "r", "u", "e">>
STR_NONE == <<"n", "o", "n", "e">>
STR_FALSE == <<"f", "a", "l", "s", "e">>

-----------------------------------------------------------------------------
(* str::split and str::split_once *)

\* index of the first occurrence of character c in s at or after i, 0 if none
RECURSIVE Find(_, _, _)
Find(s, c, i) ==
    IF i > Len(s) THEN 0
    ELSE IF s[i] = c THEN i
    ELSE Find(s, c, i + 1)

\* s.split(c): every separator ends a field, so "" yields one empty field
RECURSIVE Split(_, _)
Split(s, c) ==
    LET i == Find(s, c, 1)
    IN  IF i = 0 THEN <<s>>
        ELSE <<SubSeq(s, 1, i - 1)>> \o Split(SubSeq(s, i + 1, Len(s)), c)

\* s.split_once(c): cut at the first separator, None when there is none
SplitOnce(s, c) ==
    LET i == Find(s, c, 1)
    IN  IF i = 0 THEN [some |-> FALSE, key |-> <<>>, value |-> <<>>]
        ELSE [some |-> TRUE, key |-> SubSeq(s, 1, i - 1),
              value |-> SubSeq(s, i + 1, Len(s))]

-----------------------------------------------------------------------------
(* value.parse().unwrap_or(0) for the counters.  files, ins and dels are   *)
(* declared `let mut files = 0;` and nothing else fixes their type, so     *)
(* they are i32 and parse is <i32 as FromStr>::from_str.                   *)

I32Max == 2147483647

Digits == <<"0", "1", "2", "3", "4", "5", "6", "7", "8", "9">>
IsDigit(c) == \E i \in 1..10 : Digits[i] = c
DigitVal(c) == (CHOOSE i \in 1..10 : Digits[i] = c) - 1

\* checked_mul(10) then checked_add(d) (checked_sub(d) when negative)
Fits(acc, d, neg) ==
    IF neg
    THEN \/ acc > -(I32Max \div 10)
         \/ acc = -(I32Max \div 10) /\ d <= (I32Max % 10) + 1
    ELSE \/ acc < I32Max \div 10
         \/ acc = I32Max \div 10 /\ d <= I32Max % 10

RECURSIVE ParseDigits(_, _, _, _)
ParseDigits(s, i, acc, neg) ==
    IF i > Len(s) THEN [ok |-> TRUE, n |-> acc]
    ELSE IF ~IsDigit(s[i]) THEN [ok |-> FALSE, n |-> 0]
    ELSE IF ~Fits(acc, DigitVal(s[i]), neg) THEN [ok |-> FALSE, n |-> 0]
    ELSE ParseDigits(s, i + 1,
                     IF neg THEN acc * 10 - DigitVal(s[i])
                            ELSE acc * 10 + DigitVal(s[i]),
                     neg)

\* i32::from_str
ParseI32(s) ==
    IF s = <<>> THEN [ok |-> FALSE, n |-> 0]
    ELSE IF s = <<"+">> \/ s = <<"-">> THEN [ok |-> FALSE, n |-> 0]
    ELSE IF s[1] = "+" THEN ParseDigits(s, 2, 0, FALSE)
    ELSE IF s[1] = "-" THEN ParseDigits(s, 2, 0, TRUE)
    ELSE ParseDigits(s, 1, 0, FALSE)

\* value.parse().unwrap_or(0)
ParseOrZero(s) == LET r == ParseI32(s) IN IF r.ok THEN r.n ELSE 0

-----------------------------------------------------------------------------
(* The pipe-delimited status_msg format *)

\* let mut success = false; let mut message = None; ... let mut dels = 0;
InitialFields ==
    [success |-> FALSE, message |-> None, hash |-> None, commit_msg |-> None,
     files |-> 0, ins |-> 0, dels |-> 0]

\* a mutant: value.starts_with("true")
StatusValuePrefix(value) ==
    Len(value) >= Len(STR_TRUE) /\ SubSeq(value, 1, Len(STR_TRUE)) = STR_TRUE

\* "STATUS" => success = value == "true"
StatusValue(value) == value = STR_TRUE

\* a mutant: the "none" sentinel is not looked at
HashValueNoSentinel(hash, value) == Some(value)

\* "HASH" => if value != "none" { hash = Some(value) }
HashValue(hash, value) == IF value # STR_NONE THEN Some(value) ELSE hash

\* "COMMIT_MSG" => if value != "none" { commit_msg = Some(value) }
CommitMsgValue(commit_msg, value) ==
    IF value # STR_NONE THEN Some(value) ELSE commit_msg

\* the body of `for field in status_msg.split("|")`
ApplyField(acc, field) ==
    LET kv == SplitOnce(field, COLON)
        key == kv.key
        value == kv.value
    IN  IF ~kv.some THEN acc
        ELSE IF key = STATUS THEN [acc EXCEPT !.success = StatusValue(value)]
        ELSE IF key = MESSAGE THEN [acc EXCEPT !.message = Some(value)]
        ELSE IF key = HASH THEN [acc EXCEPT !.hash = HashValue(acc.hash, value)]
        ELSE IF key = COMMIT_MSG
             THEN [acc EXCEPT !.commit_msg = CommitMsgValue(acc.commit_msg, value)]
        ELSE IF key = FILES THEN [acc EXCEPT !.files = ParseOrZero(value)]
        ELSE IF key = INS THEN [acc EXCEPT !.ins = ParseOrZero(value)]
        ELSE IF key = DELS THEN [acc EXCEPT !.dels = ParseOrZero(value)]
        ELSE acc

RECURSIVE ApplyFields(_, _, _)
ApplyFields(acc, fields, i) ==
    IF i > Len(fields) THEN acc
    ELSE ApplyFields(ApplyField(acc, fields[i]), fields, i + 1)

\* the locals after the loop over status_msg.split("|")
DecodeStatusMsg(status_msg) ==
    ApplyFields(InitialFields, Split(status_msg, PIPE), 1)

-----------------------------------------------------------------------------
(* serde_json::Value, as far as the decoder looks into it *)

JNull == [kind |-> "null"]
JBool(b) == [kind |-> "bool", b |-> b]
JNum(n) == [kind |-> "number", n |-> n]
JStr(s) == [kind |-> "string", s |-> s]
\* o: a function from the keys present to their values
JObj(o) == [kind |-> "object", obj |-> o]

\* Value::get(key): None on a value that is no object or lacks the key
HasKey(data, key) == data.kind = "object" /\ key \in DOMAIN data.obj

\* data.get(key).and_then(|s| s.as_str())
GetStr(data, key) ==
    IF HasKey(data, key) /\ data.obj[key].kind = "string"
    THEN Some(data.obj[key].s) ELSE None

\* data.get(key).and_then(|s| s.as_bool()).unwrap_or(false)
GetBoolOrFalse(data, key) ==
    IF HasKey(data, key) /\ data.obj[key].kind = "bool"
    THEN data.obj[key].b ELSE FALSE

\* data.get(key).and_then(|f| f.as_u64()).unwrap_or(0)
GetU64OrZero(data, key) ==
    IF HasKey(data, key) /\ data.obj[key].kind = "number" /\ data.obj[key].n >= 0
    THEN data.obj[key].n ELSE 0

\* the regular JSON format
DecodeStructured(data) ==
    [success |-> GetBoolOrFalse(data, "success"),
     message |-> GetStr(data, "message"),
     hash |-> GetStr(data, "commit_hash"),
     commit_msg |-> GetStr(data, "commit_message"),
     files |-> GetU64OrZero(data, "files_changed"),
     ins |-> GetU64OrZero(data, "insertions"),
     dels |-> GetU64OrZero(data, "deletions")]

Tagged(path, f) ==
    [path |-> path, success |-> f.success, message |-> f.message,
     hash |-> f.hash, commit_msg |-> f.commit_msg,
     files |-> f.files, ins |-> f.ins, dels |-> f.dels]

\* nothing decoded
Undecoded == Tagged("none", InitialFields)

\* a mutant: the structured success key is looked at before status_msg
DecodeDataStructuredFirst(data) ==
    IF HasKey(data, "success") THEN Tagged("structured", DecodeStructured(data))
    ELSE IF GetStr(data, "status_msg").some
         THEN Tagged("legacy", DecodeStatusMsg(GetStr(data, "status_msg").v))
         ELSE Tagged("structured", DecodeStructured(data))

\* if let Some(status_msg) = data.get("status_msg").and_then(|s| s.as_str())
\*     { pipe-delimited format } else { regular JSON format }
DecodeData(data) ==
    LET status_msg == GetStr(data, "status_msg")
    IN  IF status_msg.some
        THEN Tagged("legacy", DecodeStatusMsg(status_msg.v))
        ELSE Tagged("structured", DecodeStructured(data))

-----------------------------------------------------------------------------
(* Option<Vec<u8>> of ChildResult.result, and serde_json::from_slice *)

NoBytes == [some |-> FALSE]
\* bytes that are no JSON text
Garbage == [some |-> TRUE, json |-> FALSE]
\* the bytes of the JSON text of value
Bytes(value) == [some |-> TRUE, json |-> TRUE, value |-> value]

\* serde_json::from_slice::<serde_json::Value>(&bytes)
FromSlice(bytes) ==
    IF bytes.json THEN [ok |-> TRUE, data |-> bytes.value] ELSE [ok |-> FALSE]

\* the locals decoded from ActorResult::Success(ChildResult { result, .. })
DecodeResult(result) ==
    IF ~result.some THEN Undecoded
    ELSE LET parsed == FromSlice(result)
         IN  IF parsed.ok THEN DecodeData(parsed.data) ELSE Undecoded

-----------------------------------------------------------------------------
(* ManagementResponse, as run_commit matches it, and a failed receive() *)

ActorStarted == [type |-> "ActorStarted"]
ActorEvent == [type |-> "ActorEvent"]
RequestedMessage == [type |-> "RequestedMessage"]
Error == [type |-> "Error"]
ActorResultSuccess(result) ==
    [type |-> "ActorResult", outcome |-> "Success", result |-> result]
ActorResultError == [type |-> "ActorResult", outcome |-> "Error"]
\* connection.receive() returned Err
RecvError == [type |-> "RecvError"]

IsSuccess(msg) == msg.type = "ActorResult" /\ msg.outcome = "Success"
IsActorError(msg) == msg.type = "ActorResult" /\ msg.outcome = "Error"

-----------------------------------------------------------------------------
(* What one pass of the match in the loop does *)

\* a mutant: the flag starts true, as the one of main does
InitialOperationSuccessTrue == TRUE

\* let mut operation_success = false;
InitialOperationSuccess == FALSE

\* Result<bool> of run_commit; "none" while it has not returned
NotReturned == [tag |-> "none", value |-> FALSE, context |-> ""]
Ok(b) == [tag |-> "Ok", value |-> b, context |-> ""]
Err(context) == [tag |-> "Err", value |-> FALSE, context |-> context]

\* a mutant: the `break` of the ActorResult arm is missing
BreaksLoopNever(msg) == FALSE

\* a mutant: the `_` arm ends in `break` too
BreaksLoopOnUnexpected(msg) ==
    msg.type \notin {"ActorStarted", "Error"}

\* a mutant: events have an arm of their own and the `_` arm ends in `break`
BreaksLoopOnStray(msg) ==
    msg.type \notin {"ActorStarted", "Error", "ActorEvent"}

\* the arms that end in `break`
BreaksLoop(msg) == msg.type = "ActorResult"

\* a mutant: the ActorStarted arm sets the flag, and only a decoded result
\* or an error clears it
NextSuccessSetOnStart(msg, cur) ==
    IF IsSuccess(msg)
    THEN LET d == DecodeResult(msg.result)
         IN  IF d.path = "none" THEN cur ELSE d.success
    ELSE IF IsActorError(msg) THEN FALSE
    ELSE IF msg.type = "Error" THEN FALSE
    ELSE IF msg.type = "ActorStarted" THEN TRUE
    ELSE cur

\* operation_success after the arm for msg
NextSuccess(msg, cur) ==
    IF IsSuccess(msg)
    THEN LET d == DecodeResult(msg.result)
         IN  IF d.path = "none" THEN cur ELSE d.success
    ELSE IF IsActorError(msg) THEN FALSE
    ELSE IF msg.type = "Error" THEN FALSE
    ELSE cur

\* the lines ui::print_section / print_status / print_item write for a
\* decoded result
PrintedResult(d) ==
    {"Results"}
    \cup (IF d.success THEN {"Commit operation completed"}
          ELSE {"Commit operation completed with issues"})
    \cup (IF d.message.some THEN {"Message"} ELSE {})
    \cup (IF d.hash.some THEN {"Commit hash"} ELSE {})
    \cup (IF d.commit_msg.some THEN {"Commit message"} ELSE {})
    \cup (IF d.files > 0 \/ d.ins > 0 \/ d.dels > 0
          THEN {"Change Summary", "Files changed"} ELSE {})
    \cup (IF (d.files > 0 \/ d.ins > 0 \/ d.dels > 0) /\ d.ins > 0
          THEN {"Insertions"} ELSE {})
    \cup (IF (d.files > 0 \/ d.ins > 0 \/ d.dels > 0) /\ d.dels > 0
          THEN {"Deletions"} ELSE {})

\* the lines the arm for msg writes
Printed(msg) ==
    IF msg.type = "ActorStarted" THEN {"Commit actor started"}
    ELSE IF IsSuccess(msg)
    THEN IF ~msg.result.some THEN {"No data returned"}
         ELSE IF ~FromSlice(msg.result).ok THEN {"Unable to parse JSON"}
         ELSE PrintedResult(DecodeResult(msg.result))
    ELSE IF IsActorError(msg) THEN {"Results", "Error from actor"}
    ELSE IF msg.type = "Error" THEN {"Results", "Error starting commit actor"}
    ELSE {"Unexpected response"}

-----------------------------------------------------------------------------
(* The inputs *)

Join(a, b) == a \o <<PIPE>> \o b
KV(key, value) == key \o <<COLON>> \o value

X == <<"x">>
N7 == <<"7">>
NEG7 == <<"-", "7">>

FieldSet ==
    {KV(STATUS, v) : v \in {STR_TRUE, STR_FALSE, <<>>, STR_TRUE \o X, STR_TRUE \o <<COLON>> \o X}}
    \cup {KV(MESSAGE, X)}
    \cup {KV(HASH, v) : v \in {X, STR_NONE}}
    \cup {KV(COMMIT_MSG, v) : v \in {X, STR_NONE}}
    \cup {KV(FILES, v) : v \in {N7, NEG7, X,
                               <<"2","1","4","7","4","8","3","6","4","7">>,
                               <<"2","1","4","7","4","8","3","6","4","8">>}}
    \cup {KV(INS, v) : v \in {<<"+", "7">>, <<"-">>, <<>>}}
    \cup {KV(DELS, v) : v \in {<<"-","2","1","4","7","4","8","3","6","4","8">>,
                              <<"-","2","1","4","7","4","8","3","6","4","9">>}}
    \cup {KV(X, STR_TRUE), KV(<<>>, STR_TRUE), STATUS, <<>>}

RECURSIVE StringsOf(_)
\* the strings of exactly n fields of FieldSet
StringsOf(n) ==
    IF n = 1 THEN FieldSet
    ELSE {Join(s, f) : s \in StringsOf(n - 1), f \in FieldSet}

LegacyStrings == UNION {StringsOf(n) : n \in 1..MaxFields}

Siblings ==
    ("success" :> JBool(TRUE)) @@ ("message" :> JStr(X))
    @@ ("commit_hash" :> JStr(STR_NONE)) @@ ("commit_message" :> JStr(X))
    @@ ("files_changed" :> JNum(2)) @@ ("insertions" :> JNum(10))
    @@ ("deletions" :> JNum(5))

SiblingSets ==
    {Siblings,
     [Siblings EXCEPT !["success"] = JBool(FALSE)],
     [Siblings EXCEPT !["success"] = JStr(STR_TRUE), !["files_changed"] = JNum(-2),
                      !["insertions"] = JStr(N7), !["message"] = JNull],
     "success" :> JBool(TRUE),
     "success" :> JBool(FALSE),
     "error" :> JStr(X)}

StatusMsgs ==
    {"status_msg" :> JStr(s) : s \in FieldSet}
    \cup {"status_msg" :> JNull, "status_msg" :> JNum(1), "pushed" :> JBool(TRUE)}

\* the result payloads the decoder is run on
DecodePayloads ==
    {Bytes(JObj(("status_msg" :> JStr(s)) @@ Siblings)) : s \in LegacyStrings}
    \cup {Bytes(JObj(("status_msg" :> JStr(s)))) : s \in FieldSet}
    \cup {Bytes(JObj(m @@ sib)) : m \in StatusMsgs, sib \in SiblingSets}
    \cup {NoBytes, Garbage, Bytes(JNull), Bytes(JStr(KV(STATUS, STR_TRUE))),
          Bytes(JNum(1)), Bytes(JBool(TRUE))}

\* the result payloads of the protocol runs
SessionPayloads ==
    {NoBytes, Garbage, Bytes(JNull),
     Bytes(JObj("status_msg" :> JStr(KV(STATUS, STR_TRUE)))),
     Bytes(JObj(("status_msg" :> JStr(KV(STATUS, STR_FALSE)))
                @@ ("success" :> JBool(TRUE)))),
     Bytes(JObj("success" :> JBool(TRUE))),
     Bytes(JObj("success" :> JBool(FALSE))),
     Bytes(JObj(("status_msg" :> JNull) @@ ("success" :> JBool(TRUE)))),
     Bytes(JObj("status_msg"
                :> JStr(Join(KV(STATUS, STR_TRUE), KV(STATUS, STR_FALSE)))))}

Frames ==
    {ActorStarted, ActorEvent, RequestedMessage, Error, ActorResultError}
    \cup {ActorResultSuccess(p) : p \in SessionPayloads}

-----------------------------------------------------------------------------
(* run_commit *)

Init ==
    /\ pc = "start"
    /\ operation_success = InitialOperationSuccess
    /\ ret = NotReturned
    /\ received = <<>>
    /\ decoded = Undecoded
    /\ output = {}

\* std::fs::read_to_string(COMMIT_ACTOR_MANIFEST) fails: `?` returns the error
ManifestError ==
    /\ pc = "start"
    /\ pc' = "done"
    /\ ret' = Err("Failed to read commit-actor manifest")
    /\ UNCHANGED <<operation_success, received, decoded, output>>

\* connection.send(StartActor) fails: `?` returns the error
SendError ==
    /\ pc = "start"
    /\ pc' = "done"
    /\ ret' = Err("Failed to send StartActor command")
    /\ UNCHANGED <<operation_success, received, decoded, output>>

\* connection.send(StartActor) succeeds and the loop is entered
SendStartActor ==
    /\ pc = "start"
    /\ pc' = "loop"
    /\ operation_success' = InitialOperationSuccess
    /\ UNCHANGED <<ret, received, decoded, output>>

\* Ok(msg) = connection.receive() => match msg { ... }
Receive(msg) ==
    /\ pc = "loop"
    /\ Len(received) < MaxFrames
    /\ received' = Append(received, msg)
    /\ operation_success' = NextSuccess(msg, operation_success)
    /\ decoded' = IF IsSuccess(msg) THEN DecodeResult(msg.result) ELSE decoded
    /\ output' = output \cup Printed(msg)
    /\ pc' = IF BreaksLoop(msg) THEN "done" ELSE "loop"
    /\ ret' = IF BreaksLoop(msg) THEN Ok(operation_success') ELSE ret

\* connection.receive() returns Err: the only branch of select! is disabled
\* and there is no else branch, so select! panics
ReceiveError ==
    /\ pc = "loop"
    /\ Len(received) < MaxFrames
    /\ received' = Append(received, RecvError)
    /\ pc' = "panicked"
    /\ UNCHANGED <<operation_success, ret, decoded, output>>

Next ==
    \/ ManifestError
    \/ SendError
    \/ SendStartActor
    \/ \E msg \in Frames : Receive(msg)
    \/ ReceiveError

Spec == Init /\ [][Next]_vars

\* the decoder on its inputs: the loop receives one ActorResult Success
NextDecode ==
    \/ SendStartActor
    \/ \E p \in DecodePayloads : Receive(ActorResultSuccess(p))

SpecDecode == Init /\ [][NextDecode]_vars

-----------------------------------------------------------------------------
(* Properties of the receive loop *)

NFrames == Len(received)
LastFrame == received[NFrames]
FrameAt(i, type) == i \in 1..NFrames /\ received[i].type = type

\* C1: an ActorResult frame, Success or Error, ends the session whatever
\* preceded it: it is the last frame read, the loop has ended and run_commit
\* has returned Ok with the flag.
C1_ActorResultIsTerminal ==
    \A i \in 1..NFrames :
        received[i].type = "ActorResult"
        => /\ i = NFrames
           /\ pc = "done"
           /\ ret = Ok(operation_success)

\* an ActorResult that arrived after an Error and without any ActorStarted
C1_Witness ==
    /\ NFrames = 3
    /\ received[1] = Error
    /\ received[2] = ActorEvent
    /\ received[3].type = "ActorResult"
    /\ pc = "done"

\* C2: an Error response is terminal: it is the last frame the client
\* processes and the outcome is failure.
C2_ErrorIsTerminal ==
    \A i \in 1..NFrames :
        received[i] = Error
        => /\ i = NFrames
           /\ ~operation_success

\* the state of the loop after the frames fs, computed arm by arm
RECURSIVE Replay(_, _, _)
Replay(fs, i, st) ==
    IF i > Len(fs) \/ st.pc # "loop" THEN st
    ELSE IF fs[i] = RecvError THEN [st EXCEPT !.pc = "panicked"]
    ELSE LET flag == NextSuccess(fs[i], st.operation_success)
         IN  Replay(fs, i + 1,
                [pc |-> IF BreaksLoop(fs[i]) THEN "done" ELSE "loop",
                 operation_success |-> flag,
                 ret |-> IF BreaksLoop(fs[i]) THEN Ok(flag) ELSE st.ret,
                 decoded |-> IF IsSuccess(fs[i]) THEN DecodeResult(fs[i].result)
                             ELSE st.decoded])

NotEvent(msg) == msg # ActorEvent

\* C3: ActorEvent frames do not disturb the wait: the position of the loop,
\* the flag, the return value and the decoded result are those the same
\* frames without the events lead to.
C3_EventsDoNotDisturb ==
    (pc # "start" /\ ret.tag # "Err")
    => [pc |-> pc, operation_success |-> operation_success, ret |-> ret,
        decoded |-> decoded]
       = Replay(SelectSeq(received, NotEvent), 1,
                [pc |-> "loop", operation_success |-> FALSE,
                 ret |-> NotReturned, decoded |-> Undecoded])

\* events before the control response and before the result, then a success
C3_Witness ==
    /\ NFrames = 3
    /\ received[1] = ActorEvent
    /\ received[2] = ActorEvent
    /\ IsSuccess(received[3])
    /\ ret = Ok(TRUE)

\* C4: a failed receive() ends run_commit with an error value.
C4_ReadErrorReturnsErr ==
    \A i \in 1..NFrames :
        received[i] = RecvError => pc = "done" /\ ret.tag = "Err"

\* a frame other than an event or the result that arrives after ActorStarted
\* has answered the StartActor command
Stray(i) ==
    /\ received[i].type \in {"ActorStarted", "RequestedMessage", "Error"}
    /\ \E j \in 1..(i - 1) : received[j] = ActorStarted

C10_UndecodableIsSoftFailure ==
    (NFrames > 0 /\ IsSuccess(LastFrame)
       /\ (LastFrame.result = NoBytes \/ LastFrame.result = Garbage))
    => /\ pc = "done"
       /\ ret = Ok(FALSE)
       /\ decoded = Undecoded
       /\ LastFrame.result = NoBytes => "No data returned" \in output
       /\ LastFrame.result = Garbage => "Unable to parse JSON" \in output

\* an unparsable payload after ActorStarted
C10_Witness ==
    /\ NFrames = 2
    /\ received[1] = ActorStarted
    /\ received[2] = ActorResultSuccess(Garbage)
    /\ ret = Ok(FALSE)

-----------------------------------------------------------------------------
(* Properties of the decoder *)

\* the loop has handled a Success whose payload is JSON text
JsonCase ==
    /\ NFrames > 0
    /\ IsSuccess(LastFrame)
    /\ LastFrame.result.some
    /\ LastFrame.result.json

LastData == LastFrame.result.value

\* ... and the JSON value is an object with a string under status_msg
LegacyCase == JsonCase /\ GetStr(LastData, "status_msg").some

LastStatusMsg == LastData.obj["status_msg"].s

\* The fields of a legacy string, by the positions of its separators: a
\* field starts at 1 or right after a '|' and runs up to the next '|'.
FieldStarts(s) == {1} \cup {i + 1 : i \in {j \in 1..Len(s) : s[j] = PIPE}}
FieldEnd(s, b) ==
    CHOOSE e \in b..(Len(s) + 1) :
        /\ e = Len(s) + 1 \/ s[e] = PIPE
        /\ \A k \in b..(e - 1) : s[k] # PIPE
FieldFrom(s, b) == SubSeq(s, b, FieldEnd(s, b) - 1)

\* the field f is key:value for this key
IsFieldOf(f, key) ==
    Len(f) > Len(key) /\ SubSeq(f, 1, Len(key) + 1) = key \o <<COLON>>
ValueIn(f, key) == SubSeq(f, Len(key) + 2, Len(f))

\* the values of the fields of s with this key
KeyStarts(s, key) == {b \in FieldStarts(s) : IsFieldOf(FieldFrom(s, b), key)}
ValuesOf(s, key) == {ValueIn(FieldFrom(s, b), key) : b \in KeyStarts(s, key)}
LastValueOf(s, key) ==
    LET last == CHOOSE b \in KeyStarts(s, key) :
                    \A c \in KeyStarts(s, key) : c <= b
    IN  ValueIn(FieldFrom(s, last), key)

OnlyStatusMsg(v) == Bytes(JObj("status_msg" :> v))

\* C6 as stated: whenever the JSON object has a status_msg field, the
\* decoded result is the one of the payload without the sibling keys.
C6_StatusMsgOverrides ==
    (JsonCase /\ HasKey(LastData, "status_msg"))
    => decoded = DecodeResult(OnlyStatusMsg(LastData.obj["status_msg"]))

\* C6 as amended: when status_msg holds a string, the pipe-delimited
\* format is decoded, and the result and the flag are those of the payload
\* without the sibling keys.
C6_StringStatusMsgOverrides ==
    LegacyCase
    => /\ decoded.path = "legacy"
       /\ decoded = DecodeResult(OnlyStatusMsg(LastData.obj["status_msg"]))
       /\ ret = Ok(decoded.success)

\* {"success": true, ..., "status_msg": "STATUS:false"} yields failure
C6_Witness ==
    /\ LegacyCase
    /\ LastStatusMsg = KV(STATUS, STR_FALSE)
    /\ GetBoolOrFalse(LastData, "success")
    /\ HasKey(LastData, "commit_hash")
    /\ ret = Ok(FALSE)
    /\ decoded.hash = None

\* C7: decoding a legacy string always yields a result, whose success is
\* true exactly when the string has a STATUS field and the value of its
\* last STATUS field is "true"; run_commit returns that flag.
C7_SuccessIsStatusTrue ==
    LegacyCase
    => /\ pc = "done"
       /\ decoded.path = "legacy"
       /\ decoded.success
            = (/\ KeyStarts(LastStatusMsg, STATUS) # {}
               /\ LastValueOf(LastStatusMsg, STATUS) = STR_TRUE)
       /\ operation_success = decoded.success
       /\ ret = Ok(decoded.success)

\* STATUS:true behind another field
C7_Witness ==
    /\ LegacyCase
    /\ LastStatusMsg = Join(KV(FILES, X), KV(STATUS, STR_TRUE))
    /\ ret = Ok(TRUE)

\* C8 as stated: a string with a field HASH:none (COMMIT_MSG:none) decodes
\* to an absent commit hash (commit message).
C8_NoneAlwaysAbsent ==
    LegacyCase
    => /\ STR_NONE \in ValuesOf(LastStatusMsg, HASH) => decoded.hash = None
       /\ STR_NONE \in ValuesOf(LastStatusMsg, COMMIT_MSG)
            => decoded.commit_msg = None

\* C8 as amended: in a string with a field HASH:none (COMMIT_MSG:none) the
\* decoded value is never the literal "none", and it is absent exactly
\* when no field of that key has another value.
C8_NoneNeverSets ==
    LegacyCase
    => /\ STR_NONE \in ValuesOf(LastStatusMsg, HASH)
            => /\ decoded.hash # Some(STR_NONE)
               /\ decoded.hash = None
                    <=> ValuesOf(LastStatusMsg, HASH) = {STR_NONE}
       /\ STR_NONE \in ValuesOf(LastStatusMsg, COMMIT_MSG)
            => /\ decoded.commit_msg # Some(STR_NONE)
               /\ decoded.commit_msg = None
                    <=> ValuesOf(LastStatusMsg, COMMIT_MSG) = {STR_NONE}

\* HASH:none behind another field
C8_Witness ==
    /\ LegacyCase
    /\ LastStatusMsg = Join(KV(STATUS, STR_TRUE), KV(HASH, STR_NONE))
    /\ decoded.hash = None
    /\ ret = Ok(TRUE)

\* C9: the decoded counters are never negative.
C9_CountersNonNegative ==
    LegacyCase
    => decoded.files >= 0 /\ decoded.ins >= 0 /\ decoded.dels >= 0

-----------------------------------------------------------------------------
(* The flag run_commit returns *)

\* the payload of msg is JSON text of an object whose status_msg string has
\* "true" as the value of its last STATUS field
StatusMsgSaysTrue(msg) ==
    /\ msg.result.some
    /\ msg.result.json
    /\ GetStr(msg.result.value, "status_msg").some
    /\ LET s == msg.result.value.obj["status_msg"].s
       IN  KeyStarts(s, STATUS) # {} /\ LastValueOf(s, STATUS) = STR_TRUE

\* the payload of msg is JSON text of an object whose success key is true
SuccessKeySaysTrue(msg) ==
    /\ msg.result.some
    /\ msg.result.json
    /\ HasKey(msg.result.value, "success")
    /\ msg.result.value.obj["success"] = JBool(TRUE)

\* C11 as stated: the flag returned is true exactly when the frame that
\* ended the loop is a Success whose status_msg says STATUS:true or whose
\* payload has no status_msg and says "success": true; while the loop runs
\* the flag is false.
C11_FlagIffStatusOrNoStatusMsg ==
    /\ pc = "loop" => ~operation_success
    /\ (pc = "done" /\ ret.tag = "Ok")
       => ret.value
            = (/\ IsSuccess(LastFrame)
               /\ \/ StatusMsgSaysTrue(LastFrame)
                  \/ /\ SuccessKeySaysTrue(LastFrame)
                     /\ ~HasKey(LastFrame.result.value, "status_msg"))

\* C11 as amended: ... or whose payload has no string under status_msg and
\* says "success": true.
C11_FlagIffLastFrameDecodesTrue ==
    /\ pc = "loop" => ~operation_success
    /\ (pc = "done" /\ ret.tag = "Ok")
       => /\ ret.value = operation_success
          /\ ret.value
               = (/\ IsSuccess(LastFrame)
                  /\ \/ StatusMsgSaysTrue(LastFrame)
                     \/ /\ SuccessKeySaysTrue(LastFrame)
                        /\ ~GetStr(LastFrame.result.value, "status_msg").some)

\* a true flag after an Error and an ActorStarted
C11_Witness ==
    /\ NFrames = 3
    /\ received[1] = Error
    /\ received[2] = ActorStarted
    /\ IsSuccess(received[3])
    /\ StatusMsgSaysTrue(received[3])
    /\ ret = Ok(TRUE)

====
